---- MODULE Spec2Model ----
(***************************************************************************)
(* Anbu Surveillance (anbu.py): camera enumeration and selection, the      *)
(* frame loop with its person-detected flag and 60 s cooldown, and the     *)
(* e-mail notifier threads the loop starts.                                *)
(*                                                                         *)
(* Three specifications:                                                   *)
(*   Spec      - one run of start_surveillance (or one direct call of      *)
(*               detect_available_cameras) together with the send_email    *)
(*               threads it starts;                                        *)
(*   LiveSpec  - Spec with every started thread scheduled fairly;          *)
(*   SpecAlert - the alert logic of the frame loop (lines 118-125) applied *)
(*               frame by frame to an arbitrary trace of (signal, time)    *)
(*               pairs, with the cooldown literal as a parameter.          *)
(***************************************************************************)
EXTENDS Integers, Sequences, FiniteSets

VARIABLES
    entry,                \* which function was called: start_surveillance or detect_available_cameras
    pc,                   \* position of the calling thread
    max_cameras,          \* detect_available_cameras: argument
    i,                    \* detect_available_cameras: loop index
    open_probes,          \* device indices whose probe handle is currently open
    probe_ok,             \* history: indices whose probe open succeeded in this enumeration
    available_cameras,    \* detect_available_cameras / get_camera_selection: list of str(i)
    camera_selection,     \* get_camera_selection: the StringVar
    camera_index,         \* start_surveillance: chosen index, or NoCamera
    cap,                  \* start_surveillance: the session's VideoCapture
    releases,             \* history: number of cap.release() calls of the session
    person_detected,      \* start_surveillance: flag (False = IDLE, True = ALERTED)
    last_detection_time,  \* start_surveillance: stored timestamp
    frames,               \* history: number of frames read successfully
    results,              \* detections of the frame being processed
    person_found,         \* presence signal of the frame being processed
    quit_seen,            \* history: the 'q' key was observed by waitKey
    tasks,                \* the send_email threads started so far, in start order
    trace,                \* SpecAlert: the frames fed so far, <<signal, now>> each
    runs                  \* SpecAlert: per cooldown value, the state and outputs of the alert logic

vars == <<entry, pc, max_cameras, i, open_probes, probe_ok, available_cameras,
          camera_selection, camera_index, cap, releases, person_detected,
          last_detection_time, frames, results, person_found, quit_seen, tasks,
          trace, runs>>

enumVars  == <<max_cameras, i, open_probes, probe_ok, available_cameras>>
loopVars  == <<person_detected, last_detection_time, frames, results, person_found, quit_seen>>
alertVars == <<trace, runs>>

----------------------------------------------------------------------------
(* Bounds of the model *)

\* frames a session reads before the stream ends
MaxFrames == 4
\* length of the traces fed to the alert logic in SpecAlert
MaxTraceLen == 4
\* timestamps of SpecAlert are 0..MaxTime
MaxTime == 2
\* cooldown values of SpecAlert are 0..MaxCooldown
MaxCooldown == 2

(* Program constants *)

\* default of max_cameras
MAX_CAMERAS == 5
\* the cooldown literal of line 124, in seconds
COOLDOWN == 60

None == "None"

\* camera_index when get_camera_selection returned None (line 48) or has not returned yet
NoCamera == -1

\* time.time() readings of a session: one instant, one exactly the cooldown
\* later, one just beyond it; readings are not ordered (wall clock)
SessionClock == {0, COOLDOWN, COOLDOWN + 1}

Times     == 0..MaxTime
Cooldowns == 0..MaxCooldown

----------------------------------------------------------------------------
(* str(i) and int(s) for the device indices of range(max_cameras) *)

Digits == <<"0", "1", "2", "3", "4", "5", "6", "7", "8", "9">>

\* str(i), line 39
ToStr(n) == Digits[n + 1]

\* int(camera_selection.get()), line 63
ParseInt(s) == CHOOSE n \in 0..9 : Digits[n + 1] = s

Range(s) == {s[k] : k \in 1..Len(s)}

----------------------------------------------------------------------------
(* detect_available_cameras, lines 33-41 *)

\* line 37: cap = cv2.VideoCapture(i); the open succeeds or not
ProbeOpen ==
    /\ pc = "probe_open"
    /\ i < max_cameras
    /\ \E ok \in BOOLEAN :
         /\ open_probes' = IF ok THEN open_probes \cup {i} ELSE open_probes
         /\ probe_ok' = IF ok THEN probe_ok \cup {i} ELSE probe_ok
    /\ pc' = "probe_check"
    /\ UNCHANGED <<entry, max_cameras, i, available_cameras, camera_selection,
                   camera_index, cap, releases, tasks>>
    /\ UNCHANGED loopVars /\ UNCHANGED alertVars

\* line 38 dropped: every probed index is appended
ProbeCheck_SkipsIsOpened ==
    /\ pc = "probe_check"
    /\ available_cameras' = Append(available_cameras, ToStr(i))
    /\ open_probes' = open_probes \ {i}
    /\ i' = i + 1
    /\ pc' = "probe_open"
    /\ UNCHANGED <<entry, max_cameras, probe_ok, camera_selection, camera_index,
                   cap, releases, tasks>>
    /\ UNCHANGED loopVars /\ UNCHANGED alertVars

\* line 40 dropped: the opened probe is appended and left open
ProbeCheck_NoRelease ==
    /\ pc = "probe_check"
    /\ IF i \in open_probes
       THEN available_cameras' = Append(available_cameras, ToStr(i))
       ELSE UNCHANGED available_cameras
    /\ i' = i + 1
    /\ pc' = "probe_open"
    /\ UNCHANGED <<entry, max_cameras, open_probes, probe_ok, camera_selection,
                   camera_index, cap, releases, tasks>>
    /\ UNCHANGED loopVars /\ UNCHANGED alertVars

\* lines 38-40: if cap.isOpened(): append str(i), release; then the next index
ProbeCheck ==
    /\ pc = "probe_check"
    /\ IF i \in open_probes
       THEN /\ available_cameras' = Append(available_cameras, ToStr(i))
            /\ open_probes' = open_probes \ {i}
       ELSE UNCHANGED <<available_cameras, open_probes>>
    /\ i' = i + 1
    /\ pc' = "probe_open"
    /\ UNCHANGED <<entry, max_cameras, probe_ok, camera_selection, camera_index,
                   cap, releases, tasks>>
    /\ UNCHANGED loopVars /\ UNCHANGED alertVars

----------------------------------------------------------------------------
(* get_camera_selection, lines 43-63, and its call in start_surveillance *)

\* lines 70-76: the three prompts; an empty answer ends the call.
\* line 78 / 45: otherwise detect_available_cameras() is called with its default
Credentials ==
    /\ pc = "credentials"
    /\ \E complete \in BOOLEAN :
         pc' = IF complete THEN "probe_open" ELSE "returned"
    /\ UNCHANGED <<entry, camera_selection, camera_index, cap, releases, tasks>>
    /\ UNCHANGED enumVars /\ UNCHANGED loopVars /\ UNCHANGED alertVars

\* lines 67-76 raise: tk.Tk() with no display (TclError), or a prompt;
\* nothing in start_surveillance catches it, the call ends by the exception
CredentialsRaises ==
    /\ pc = "credentials"
    /\ pc' = "crashed"
    /\ UNCHANGED <<entry, camera_selection, camera_index, cap, releases, tasks>>
    /\ UNCHANGED enumVars /\ UNCHANGED loopVars /\ UNCHANGED alertVars

\* line 41: return available_cameras. A direct call ends here. In
\* get_camera_selection: lines 46-48 (nothing found: error box, None, and
\* start_surveillance returns, lines 79-80) or lines 50-51 (default selection)
DetectReturn ==
    /\ pc = "probe_open"
    /\ i >= max_cameras
    /\ IF entry = "detect_available_cameras"
       THEN /\ pc' = "returned"
            /\ UNCHANGED camera_selection
       ELSE IF available_cameras = <<>>
            THEN /\ pc' = "returned"
                 /\ UNCHANGED camera_selection
            ELSE /\ pc' = "popup"
                 /\ camera_selection' = available_cameras[1]
    /\ UNCHANGED <<entry, camera_index, cap, releases, tasks>>
    /\ UNCHANGED enumVars /\ UNCHANGED loopVars /\ UNCHANGED alertVars

\* line 56: the operator picks an entry of the OptionMenu
Choose ==
    /\ pc = "popup"
    /\ \E s \in Range(available_cameras) : camera_selection' = s
    /\ UNCHANGED <<entry, pc, camera_index, cap, releases, tasks>>
    /\ UNCHANGED enumVars /\ UNCHANGED loopVars /\ UNCHANGED alertVars

\* lines 47, 50-63 raise: the error box of an empty enumeration, or the
\* popup and its wait (TclError); uncaught, no index is returned
SelectionRaises ==
    /\ \/ pc = "popup"
       \/ /\ pc = "probe_open"
          /\ entry = "start_surveillance"
          /\ i >= max_cameras
          /\ available_cameras = <<>>
    /\ pc' = "crashed"
    /\ UNCHANGED <<entry, camera_selection, camera_index, cap, releases, tasks>>
    /\ UNCHANGED enumVars /\ UNCHANGED loopVars /\ UNCHANGED alertVars

\* the position of the selection in the menu is returned, not its value
Confirm_ReturnsPosition ==
    /\ pc = "popup"
    /\ camera_index' = (CHOOSE k \in 1..Len(available_cameras) :
                          available_cameras[k] = camera_selection) - 1
    /\ pc' = "open"
    /\ UNCHANGED <<entry, camera_selection, cap, releases, tasks>>
    /\ UNCHANGED enumVars /\ UNCHANGED loopVars /\ UNCHANGED alertVars

\* lines 58-63 and 78: the popup is closed, int(camera_selection.get()) is returned
Confirm ==
    /\ pc = "popup"
    /\ camera_index' = ParseInt(camera_selection)
    /\ pc' = "open"
    /\ UNCHANGED <<entry, camera_selection, cap, releases, tasks>>
    /\ UNCHANGED enumVars /\ UNCHANGED loopVars /\ UNCHANGED alertVars

----------------------------------------------------------------------------
(* The detections of a frame, lines 102-115 *)

Labels == {"person", "dog"}

\* box.conf in percent: one low and one high value
Confidences == {30, 90}

Detections == [label : Labels, conf : Confidences]

\* a box counts only from a confidence of 0.5 on
PersonFound_Thresholded(boxes) == \E box \in boxes : box.label = "person" /\ box.conf >= 50

\* lines 103, 105-115: person_found is set by any box whose class name is
\* 'person'; conf is only formatted into the drawn label
PersonFound(boxes) == \E box \in boxes : box.label = "person"

----------------------------------------------------------------------------
(* The alert logic of one loop iteration, lines 118-125.                   *)
(* detected, last: person_detected and last_detection_time before the      *)
(* step; found: person_found; now: the value time.time() returns in this   *)
(* iteration; cooldown: the literal of line 124.                           *)
(* dispatch tells whether line 122 starts a send_email thread.             *)

\* line 119 dropped: every true frame dispatches
AlertStep_NoFlagCheck(detected, last, found, now, cooldown) ==
    IF found
    THEN [person_detected |-> TRUE, last_detection_time |-> now, dispatch |-> TRUE]
    ELSE IF now - last > cooldown
         THEN [person_detected |-> FALSE, last_detection_time |-> last, dispatch |-> FALSE]
         ELSE [person_detected |-> detected, last_detection_time |-> last, dispatch |-> FALSE]

\* line 124 with the comparison inverted
AlertStep_InvertedCooldown(detected, last, found, now, cooldown) ==
    IF found
    THEN IF ~detected
         THEN [person_detected |-> TRUE, last_detection_time |-> now, dispatch |-> TRUE]
         ELSE [person_detected |-> detected, last_detection_time |-> last, dispatch |-> FALSE]
    ELSE IF now - last < cooldown
         THEN [person_detected |-> FALSE, last_detection_time |-> last, dispatch |-> FALSE]
         ELSE [person_detected |-> detected, last_detection_time |-> last, dispatch |-> FALSE]

\* line 121 moved out of the branch: the timestamp is stored on every frame
AlertStep_StampsEveryFrame(detected, last, found, now, cooldown) ==
    IF found
    THEN IF ~detected
         THEN [person_detected |-> TRUE, last_detection_time |-> now, dispatch |-> TRUE]
         ELSE [person_detected |-> detected, last_detection_time |-> now, dispatch |-> FALSE]
    ELSE IF now - last > cooldown
         THEN [person_detected |-> FALSE, last_detection_time |-> now, dispatch |-> FALSE]
         ELSE [person_detected |-> detected, last_detection_time |-> now, dispatch |-> FALSE]

\* line 121 dropped: the flag is raised without storing the time
AlertStep_NoStamp(detected, last, found, now, cooldown) ==
    IF found
    THEN IF ~detected
         THEN [person_detected |-> TRUE, last_detection_time |-> last, dispatch |-> TRUE]
         ELSE [person_detected |-> detected, last_detection_time |-> last, dispatch |-> FALSE]
    ELSE IF now - last > cooldown
         THEN [person_detected |-> FALSE, last_detection_time |-> last, dispatch |-> FALSE]
         ELSE [person_detected |-> detected, last_detection_time |-> last, dispatch |-> FALSE]

\* line 124 with >= for >
AlertStep_ResetsAtCooldown(detected, last, found, now, cooldown) ==
    IF found
    THEN IF ~detected
         THEN [person_detected |-> TRUE, last_detection_time |-> now, dispatch |-> TRUE]
         ELSE [person_detected |-> detected, last_detection_time |-> last, dispatch |-> FALSE]
    ELSE IF now - last >= cooldown
         THEN [person_detected |-> FALSE, last_detection_time |-> last, dispatch |-> FALSE]
         ELSE [person_detected |-> detected, last_detection_time |-> last, dispatch |-> FALSE]

AlertStep(detected, last, found, now, cooldown) ==
    IF found
    THEN IF ~detected
         THEN [person_detected |-> TRUE, last_detection_time |-> now, dispatch |-> TRUE]
         ELSE [person_detected |-> detected, last_detection_time |-> last, dispatch |-> FALSE]
    ELSE IF now - last > cooldown
         THEN [person_detected |-> FALSE, last_detection_time |-> last, dispatch |-> FALSE]
         ELSE [person_detected |-> detected, last_detection_time |-> last, dispatch |-> FALSE]

----------------------------------------------------------------------------
(* start_surveillance from line 82 on *)

\* a thread just started on send_email, line 122: no connection yet, nothing sent
NewTask == [stage |-> "connect", conn |-> FALSE, sends |-> 0]

\* line 86 dropped: the loop is entered whether or not the camera opened
OpenCamera_IgnoresFailure ==
    /\ pc = "open"
    /\ \E ok \in BOOLEAN : cap' = IF ok THEN "open" ELSE "unopened"
    /\ pc' = "init"
    /\ i' = 0
    /\ probe_ok' = {}
    /\ available_cameras' = <<>>
    /\ camera_selection' = None
    /\ UNCHANGED <<entry, max_cameras, open_probes, camera_index, releases, tasks>>
    /\ UNCHANGED loopVars /\ UNCHANGED alertVars

\* lines 82-88: cv2.VideoCapture(camera_index); the open succeeds or not.
\* The variables of the enumeration and of the popup are out of scope from
\* here on; the probe handles are devices, not variables, and stay as they are.
OpenCamera ==
    /\ pc = "open"
    /\ \E ok \in BOOLEAN :
         /\ cap' = IF ok THEN "open" ELSE "unopened"
         /\ pc' = IF ok THEN "init" ELSE "returned"
    /\ i' = 0
    /\ probe_ok' = {}
    /\ available_cameras' = <<>>
    /\ camera_selection' = None
    /\ UNCHANGED <<entry, max_cameras, open_probes, camera_index, releases, tasks>>
    /\ UNCHANGED loopVars /\ UNCHANGED alertVars

\* line 82 raises (root.destroy()), before the camera is touched; or the
\* open fails and the error box of line 87 raises: uncaught either way
OpenCameraRaises ==
    /\ pc = "open"
    /\ \E opened \in BOOLEAN : cap' = IF opened THEN "unopened" ELSE cap
    /\ pc' = "crashed"
    /\ i' = 0
    /\ probe_ok' = {}
    /\ available_cameras' = <<>>
    /\ camera_selection' = None
    /\ UNCHANGED <<entry, max_cameras, open_probes, camera_index, releases, tasks>>
    /\ UNCHANGED loopVars /\ UNCHANGED alertVars

\* lines 90-94
InitLoop ==
    /\ pc = "init"
    /\ person_detected' = FALSE
    /\ \E now \in SessionClock : last_detection_time' = now
    /\ pc' = "read"
    /\ UNCHANGED <<entry, camera_selection, camera_index, cap, releases, tasks,
                   frames, results, person_found, quit_seen>>
    /\ UNCHANGED enumVars /\ UNCHANGED alertVars

\* the loop joins the threads it started before it reads on
ReadFrame_WaitsForNotifier ==
    /\ pc = "read"
    /\ frames < MaxFrames
    /\ \A k \in 1..Len(tasks) : tasks[k].stage \in {"sent", "failed"}
    /\ frames' = frames + 1
    /\ pc' = "detect"
    /\ UNCHANGED <<entry, camera_selection, camera_index, cap, releases, tasks,
                   person_detected, last_detection_time, results, person_found, quit_seen>>
    /\ UNCHANGED enumVars /\ UNCHANGED alertVars

\* lines 97-98: cap.read() delivers a frame
ReadFrame ==
    /\ pc = "read"
    /\ frames < MaxFrames
    /\ frames' = frames + 1
    /\ pc' = "detect"
    /\ UNCHANGED <<entry, camera_selection, camera_index, cap, releases, tasks,
                   person_detected, last_detection_time, results, person_found, quit_seen>>
    /\ UNCHANGED enumVars /\ UNCHANGED alertVars

\* lines 97-100: cap.read() fails (or the stream has ended), the message is
\* printed: break
ReadFails ==
    /\ pc = "read"
    /\ pc' = "release"
    /\ UNCHANGED <<entry, camera_selection, camera_index, cap, releases, tasks>>
    /\ UNCHANGED loopVars /\ UNCHANGED enumVars /\ UNCHANGED alertVars

\* line 99 raises: print of a text with U+274C on a standard output whose
\* encoding lacks it (UnicodeEncodeError); the break of line 100 is not reached
ReadFailsRaises ==
    /\ pc = "read"
    /\ pc' = "crashed"
    /\ UNCHANGED <<entry, camera_selection, camera_index, cap, releases, tasks>>
    /\ UNCHANGED loopVars /\ UNCHANGED enumVars /\ UNCHANGED alertVars

\* lines 102-115: the detector's boxes for this frame and the presence signal
Detect ==
    /\ pc = "detect"
    /\ \E boxes \in SUBSET Detections :
         /\ results' = boxes
         /\ person_found' = PersonFound(boxes)
    /\ pc' = "alert"
    /\ UNCHANGED <<entry, camera_selection, camera_index, cap, releases, tasks,
                   person_detected, last_detection_time, frames, quit_seen>>
    /\ UNCHANGED enumVars /\ UNCHANGED alertVars

\* line 102 raises (the detector fails on the frame): nothing in
\* start_surveillance catches it, the thread ends with the traceback
DetectRaises ==
    /\ pc = "detect"
    /\ pc' = "crashed"
    /\ UNCHANGED <<entry, camera_selection, camera_index, cap, releases, tasks>>
    /\ UNCHANGED loopVars /\ UNCHANGED enumVars /\ UNCHANGED alertVars

\* lines 118-125; results is not read after line 115
HandleAlert ==
    /\ pc = "alert"
    /\ \E now \in SessionClock :
         LET r == AlertStep(person_detected, last_detection_time, person_found, now, COOLDOWN)
         IN  /\ person_detected' = r.person_detected
             /\ last_detection_time' = r.last_detection_time
             /\ tasks' = IF r.dispatch THEN Append(tasks, NewTask) ELSE tasks
    /\ results' = {}
    /\ pc' = "show"
    /\ UNCHANGED <<entry, camera_selection, camera_index, cap, releases,
                   frames, person_found, quit_seen>>
    /\ UNCHANGED enumVars /\ UNCHANGED alertVars

\* lines 118-122 with Thread(...).start() raising (RuntimeError: can't start
\* new thread): the flag and the timestamp are set, no thread exists, and
\* the exception, uncaught, ends the session
HandleAlertRaises ==
    /\ pc = "alert"
    /\ \E now \in SessionClock :
         LET r == AlertStep(person_detected, last_detection_time, person_found, now, COOLDOWN)
         IN  /\ r.dispatch
             /\ person_detected' = r.person_detected
             /\ last_detection_time' = r.last_detection_time
    /\ results' = {}
    /\ pc' = "crashed"
    /\ UNCHANGED <<entry, camera_selection, camera_index, cap, releases, tasks,
                   frames, person_found, quit_seen>>
    /\ UNCHANGED enumVars /\ UNCHANGED alertVars

\* line 129 without its break: 'q' is seen and the loop reads on
Show_NoBreak ==
    /\ pc = "show"
    /\ \E q \in BOOLEAN :
         /\ quit_seen' = q
         /\ pc' = "read"
    /\ UNCHANGED <<entry, camera_selection, camera_index, cap, releases, tasks,
                   person_detected, last_detection_time, frames, results, person_found>>
    /\ UNCHANGED enumVars /\ UNCHANGED alertVars

\* lines 127-129: imshow, then waitKey: 'q' leaves the loop
Show ==
    /\ pc = "show"
    /\ \E q \in BOOLEAN :
         /\ quit_seen' = q
         /\ pc' = IF q THEN "release" ELSE "read"
    /\ UNCHANGED <<entry, camera_selection, camera_index, cap, releases, tasks,
                   person_detected, last_detection_time, frames, results, person_found>>
    /\ UNCHANGED enumVars /\ UNCHANGED alertVars

\* line 127 raises (cv2.error from imshow, e.g. no display): uncaught as well
ShowRaises ==
    /\ pc = "show"
    /\ pc' = "crashed"
    /\ UNCHANGED <<entry, camera_selection, camera_index, cap, releases, tasks>>
    /\ UNCHANGED loopVars /\ UNCHANGED enumVars /\ UNCHANGED alertVars

\* lines 131-132: cap.release(), then cv2.destroyAllWindows() returns
Release ==
    /\ pc = "release"
    /\ cap' = "released"
    /\ releases' = releases + 1
    /\ pc' = "returned"
    /\ UNCHANGED <<entry, camera_selection, camera_index, tasks>>
    /\ UNCHANGED loopVars /\ UNCHANGED enumVars /\ UNCHANGED alertVars

\* lines 131-132: cap.release(), then cv2.destroyAllWindows() raises
\* (cv2.error in a build without GUI support): uncaught, the camera is released
ReleaseRaises ==
    /\ pc = "release"
    /\ cap' = "released"
    /\ releases' = releases + 1
    /\ pc' = "crashed"
    /\ UNCHANGED <<entry, camera_selection, camera_index, tasks>>
    /\ UNCHANGED loopVars /\ UNCHANGED enumVars /\ UNCHANGED alertVars

----------------------------------------------------------------------------
(* send_email, lines 14-31, run by thread k of tasks.                      *)
(* stage: the call the thread makes next, "sent" / "failed" at its end, or *)
(* "blocked" in a call that does not return; conn: the SMTP connection is  *)
(* established; sends: sendmail calls made.                                *)

notifierFrame == <<entry, pc, camera_selection, camera_index, cap, releases>>

\* a step of thread k touches nothing but its own record
TaskStep(k, t) ==
    /\ tasks' = [tasks EXCEPT ![k] = t]
    /\ UNCHANGED notifierFrame
    /\ UNCHANGED loopVars /\ UNCHANGED enumVars /\ UNCHANGED alertVars

\* no try/except in a send_email run inline: the exception ends the frame loop
SendFailed_Propagates(k, stillOpen) ==
    /\ tasks' = [tasks EXCEPT ![k] = [tasks[k] EXCEPT !.stage = "failed", !.conn = stillOpen,
                                        !.sends = IF tasks[k].stage = "sendmail" THEN @ + 1 ELSE @]]
    /\ pc' = "crashed"
    /\ UNCHANGED <<entry, camera_selection, camera_index, cap, releases>>
    /\ UNCHANGED loopVars /\ UNCHANGED enumVars /\ UNCHANGED alertVars

\* lines 30-31: the exception of a failed call is caught and printed, the
\* thread ends (also when the print itself raises). stillOpen: the failed
\* call left the connection established (an error reply) or not (the server
\* hung up); nothing here closes it. A failure at stage "sendmail" is one of
\* the call server.sendmail, which has been made.
SendFailed(k, stillOpen) ==
    TaskStep(k, [tasks[k] EXCEPT !.stage = "failed", !.conn = stillOpen,
                                 !.sends = IF tasks[k].stage = "sendmail" THEN @ + 1 ELSE @])

\* line 17: smtplib.SMTP("smtp.gmail.com", 587)
SmtpConnect(k) ==
    /\ tasks[k].stage = "connect"
    /\ \/ TaskStep(k, [tasks[k] EXCEPT !.stage = "starttls", !.conn = TRUE])
       \/ SendFailed(k, FALSE)

\* line 18: server.starttls()
SmtpStartTls(k) ==
    /\ tasks[k].stage = "starttls"
    /\ \/ TaskStep(k, [tasks[k] EXCEPT !.stage = "login"])
       \/ \E stillOpen \in BOOLEAN : SendFailed(k, stillOpen)

\* line 19: server.login(sender_email, sender_password)
SmtpLogin(k) ==
    /\ tasks[k].stage = "login"
    /\ \/ TaskStep(k, [tasks[k] EXCEPT !.stage = "message"])
       \/ \E stillOpen \in BOOLEAN : SendFailed(k, stillOpen)

\* lines 21-27 up to msg.as_string(): the message is built from the
\* addresses; it raises (HeaderParseError on a line break in an address)
\* before server.sendmail is called; nothing closes the connection, which
\* stays established until the interpreter finalizes the unreferenced object
SmtpMessage(k) ==
    /\ tasks[k].stage = "message"
    /\ \/ TaskStep(k, [tasks[k] EXCEPT !.stage = "sendmail"])
       \/ \E stillOpen \in BOOLEAN : SendFailed(k, stillOpen)

\* line 27: server.sendmail(...) is called
SmtpSendmail(k) ==
    /\ tasks[k].stage = "sendmail"
    /\ \/ TaskStep(k, [tasks[k] EXCEPT !.stage = "quit", !.sends = @ + 1])
       \/ \E stillOpen \in BOOLEAN : SendFailed(k, stillOpen)

\* lines 28-29: server.quit() closes the connection and the success is
\* printed; or quit() raises (SMTPServerDisconnected, the server closed on
\* QUIT without a reply) and so the thread ends as failed with its message
\* accepted and the connection gone
SmtpQuit(k) ==
    /\ tasks[k].stage = "quit"
    /\ \/ TaskStep(k, [tasks[k] EXCEPT !.stage = "sent", !.conn = FALSE])
       \/ SendFailed(k, FALSE)

\* lines 17-19, 27, 28: smtplib.SMTP(...) is created without a timeout, so
\* a call waiting for a reply that never comes does not return; the
\* connection it waits on is open
SmtpBlocks(k) ==
    /\ tasks[k].stage \in {"connect", "starttls", "login", "sendmail", "quit"}
    /\ TaskStep(k, [tasks[k] EXCEPT !.stage = "blocked", !.conn = TRUE,
                                    !.sends = IF tasks[k].stage = "sendmail" THEN @ + 1 ELSE @])

Notifier(k) ==
    \/ SmtpConnect(k)
    \/ SmtpStartTls(k)
    \/ SmtpLogin(k)
    \/ SmtpMessage(k)
    \/ SmtpSendmail(k)
    \/ SmtpQuit(k)
    \/ SmtpBlocks(k)

Finished(t) == t.stage \in {"sent", "failed"}

----------------------------------------------------------------------------
(* Spec: one call of start_surveillance, or of detect_available_cameras     *)
(* with any argument up to its default                                     *)

Init ==
    /\ \/ /\ entry = "start_surveillance"
          /\ pc = "credentials"
          /\ max_cameras = MAX_CAMERAS
       \/ /\ entry = "detect_available_cameras"
          /\ pc = "probe_open"
          /\ max_cameras \in 0..MAX_CAMERAS
    /\ i = 0
    /\ open_probes = {}
    /\ probe_ok = {}
    /\ available_cameras = <<>>
    /\ camera_selection = None
    /\ camera_index = NoCamera
    /\ cap = None
    /\ releases = 0
    /\ person_detected = FALSE
    /\ last_detection_time = 0
    /\ frames = 0
    /\ results = {}
    /\ person_found = FALSE
    /\ quit_seen = FALSE
    /\ tasks = <<>>
    /\ trace = <<>>
    /\ runs = <<>>

Next ==
    \/ Credentials
    \/ CredentialsRaises
    \/ ProbeOpen
    \/ ProbeCheck
    \/ DetectReturn
    \/ Choose
    \/ Confirm
    \/ SelectionRaises
    \/ OpenCamera
    \/ OpenCameraRaises
    \/ InitLoop
    \/ ReadFrame
    \/ ReadFails
    \/ ReadFailsRaises
    \/ Detect
    \/ DetectRaises
    \/ HandleAlert
    \/ HandleAlertRaises
    \/ Show
    \/ ShowRaises
    \/ Release
    \/ ReleaseRaises
    \/ \E k \in 1..Len(tasks) : Notifier(k)

Spec == Init /\ [][Next]_vars

\* Each started thread keeps being scheduled: the threads are not daemon
\* threads, so they outlive start_surveillance and the interpreter waits for
\* them. A call of theirs returns, raises, or blocks (SmtpBlocks).
LiveSpec ==
    Spec /\ \A k \in 1..MaxFrames : WF_vars(k \in 1..Len(tasks) /\ Notifier(k))

----------------------------------------------------------------------------
(* SpecAlert: the alert logic fed an arbitrary trace.                      *)
(* trace[j] = <<signal, now>> of frame j; timestamps are not ordered       *)
(* unless a property asks for it. runs[c] is the loop's alert state under  *)
(* cooldown c with, per frame, what the step did.                          *)

Signal(j) == trace[j][1]
At(j)     == trace[j][2]

\* the fixed scenario trace [T,T,T,F,F,T,T] at 1-second intervals
Scenario ==
    << <<TRUE, 0>>, <<TRUE, 1>>, <<TRUE, 2>>, <<FALSE, 3>>, <<FALSE, 4>>,
       <<TRUE, 5>>, <<TRUE, 6>> >>

\* lines 93-94 under cooldown c, t0 being the time.time() of line 94
StartRun(t0) ==
    [person_detected |-> FALSE, last_detection_time |-> t0, log |-> <<>>]

\* one loop iteration (lines 118-125) of a run, with a log entry for the frame
RunFrame(run, found, now, cooldown) ==
    LET r == AlertStep(run.person_detected, run.last_detection_time, found, now, cooldown)
    IN  [person_detected     |-> r.person_detected,
         last_detection_time |-> r.last_detection_time,
         log |-> Append(run.log,
                        [detected_before |-> run.person_detected,
                         last_before     |-> run.last_detection_time,
                         dispatch        |-> r.dispatch,
                         detected_after  |-> r.person_detected,
                         last_after      |-> r.last_detection_time])]

InitAlert ==
    /\ entry = "alert_logic"
    /\ pc = "off"
    /\ max_cameras = MAX_CAMERAS
    /\ i = 0
    /\ open_probes = {}
    /\ probe_ok = {}
    /\ available_cameras = <<>>
    /\ camera_selection = None
    /\ camera_index = NoCamera
    /\ cap = None
    /\ releases = 0
    /\ person_detected = FALSE
    /\ last_detection_time = 0
    /\ frames = 0
    /\ results = {}
    /\ person_found = FALSE
    /\ quit_seen = FALSE
    /\ tasks = <<>>
    /\ trace = <<>>
    /\ \E t0 \in Times : runs = [c \in Cooldowns |-> StartRun(t0)]

Feed(found, now) ==
    /\ trace' = Append(trace, <<found, now>>)
    /\ runs' = [c \in Cooldowns |-> RunFrame(runs[c], found, now, c)]
    /\ UNCHANGED <<entry, pc, camera_selection, camera_index, cap, releases, tasks>>
    /\ UNCHANGED loopVars /\ UNCHANGED enumVars

\* any frame at any timestamp
FeedFrame ==
    /\ Len(trace) < MaxTraceLen
    /\ \E found \in BOOLEAN, now \in Times : Feed(found, now)

\* the next frame of the scenario trace
FeedScenario ==
    /\ Len(trace) < Len(Scenario)
    /\ trace = SubSeq(Scenario, 1, Len(trace))
    /\ Feed(Scenario[Len(trace) + 1][1], Scenario[Len(trace) + 1][2])

NextAlert == FeedFrame \/ FeedScenario

SpecAlert == InitAlert /\ [][NextAlert]_vars

----------------------------------------------------------------------------
(* Vocabulary of the properties over a trace *)

Frames == 1..Len(trace)

NonDecreasing == \A j \in Frames : j > 1 => At(j - 1) <= At(j)

\* the frames at which the run under cooldown c started a send_email thread
Dispatches(c) == {j \in Frames : runs[c].log[j].dispatch}

HasTrueBefore(j) == \E p \in 1..(j - 1) : Signal(p)

\* the most recent true frame before frame j
LastTrueBefore(j) ==
    CHOOSE p \in 1..(j - 1) : Signal(p) /\ \A q \in (p + 1)..(j - 1) : ~Signal(q)

\* the frames between j and k (exclusive) are all false
GapBetween(j, k) == \A m \in (j + 1)..(k - 1) : ~Signal(m)

\* the frames j..k are all true
TrueRun(j, k) == \A m \in j..k : Signal(m)

----------------------------------------------------------------------------
(* C1 *)

\* C1: with non-decreasing timestamps, a true frame that follows a gap of
\* false frames no later than cooldown after the most recent true frame
\* dispatches nothing; the scenario trace under cooldown 2 dispatches exactly
\* once, at its first frame (t=0).
C1_ShortGapKeepsEpisode ==
    /\ \A c \in Cooldowns :
         NonDecreasing =>
           \A j \in Frames :
             ( /\ Signal(j)
               /\ j > 1
               /\ ~Signal(j - 1)
               /\ HasTrueBefore(j)
               /\ At(j) - At(LastTrueBefore(j)) <= c )
             => j \notin Dispatches(c)
    /\ trace = Scenario => Dispatches(2) = {1}

----------------------------------------------------------------------------
(* C2 *)

\* C2: within a run of consecutive true frames at most one frame dispatches,
\* whatever the timestamps; a run that begins with the flag down (IDLE)
\* dispatches at its first frame, hence exactly once.
C2_OneDispatchPerTrueRun ==
    \A c \in Cooldowns :
      /\ \A j \in Frames : \A k \in Frames :
           (j < k /\ TrueRun(j, k)) => ~(j \in Dispatches(c) /\ k \in Dispatches(c))
      /\ \A j \in Frames :
           ( /\ Signal(j)
             /\ (j = 1 \/ ~Signal(j - 1))
             /\ ~runs[c].log[j].detected_before )
           => j \in Dispatches(c)

\* a run of three true frames from IDLE, with regressing timestamps, has
\* dispatched at its first frame only
C2_Witness ==
    /\ Len(trace) = 3
    /\ TrueRun(1, 3)
    /\ At(3) < At(1)
    /\ \A c \in Cooldowns : Dispatches(c) = {1}

----------------------------------------------------------------------------
(* C3 *)

\* C3: a false frame later than cooldown after the most recent true frame,
\* arriving while the flag is up (ALERTED), lowers the flag and dispatches
\* nothing, and the next true frame dispatches; the scenario trace under
\* cooldown 1 dispatches exactly twice, at frames 1 (t=0) and 6 (t=5).
C3_ExpiredCooldownResets ==
    /\ \A c \in Cooldowns : \A j \in Frames :
         ( /\ ~Signal(j)
           /\ runs[c].log[j].detected_before
           /\ HasTrueBefore(j)
           /\ At(j) - At(LastTrueBefore(j)) > c )
         => /\ ~runs[c].log[j].detected_after
            /\ j \notin Dispatches(c)
            /\ \A k \in Frames :
                 (k > j /\ Signal(k) /\ GapBetween(j, k)) => k \in Dispatches(c)
    /\ trace = Scenario => Dispatches(1) = {1, 6}

----------------------------------------------------------------------------
(* C4 *)

\* C4: for a trace with non-decreasing timestamps and cooldowns c1 <= c2,
\* the run under c2 dispatches no more often than the run under c1.
C4_MonotoneInCooldown ==
    NonDecreasing =>
      \A c1 \in Cooldowns : \A c2 \in Cooldowns :
        c1 <= c2 => Cardinality(Dispatches(c2)) <= Cardinality(Dispatches(c1))

\* a non-decreasing trace on which the larger cooldown dispatches strictly less
C4_Witness ==
    /\ NonDecreasing
    /\ Len(trace) >= 3
    /\ Cardinality(Dispatches(0)) = 2
    /\ Cardinality(Dispatches(MaxCooldown)) = 1

----------------------------------------------------------------------------
(* C5 *)

\* C5: with the flag down (IDLE), a false frame leaves the flag and the
\* stored timestamp as they were and dispatches nothing, at every time; and
\* the same (state, false, now) step applied twice gives what it gives once.
C5_IdleFalseIsNoOp ==
    \A c \in Cooldowns :
      /\ \A j \in Frames :
           (~Signal(j) /\ ~runs[c].log[j].detected_before)
           => /\ ~runs[c].log[j].detected_after
              /\ runs[c].log[j].last_after = runs[c].log[j].last_before
              /\ j \notin Dispatches(c)
      /\ ~runs[c].person_detected =>
           \A now \in Times :
             LET once  == AlertStep(FALSE, runs[c].last_detection_time, FALSE, now, c)
                 twice == AlertStep(once.person_detected, once.last_detection_time,
                                    FALSE, now, c)
             IN  /\ once = [person_detected |-> FALSE,
                            last_detection_time |-> runs[c].last_detection_time,
                            dispatch |-> FALSE]
                 /\ twice = once

\* the same false frame fed twice in IDLE, later than the stored timestamp
C5_Witness ==
    /\ Len(trace) = 2
    /\ ~Signal(1) /\ ~Signal(2)
    /\ At(1) = At(2)
    /\ \A c \in Cooldowns :
         /\ ~runs[c].person_detected
         /\ Dispatches(c) = {}
    /\ At(2) - runs[0].last_detection_time > 0

----------------------------------------------------------------------------
(* Vocabulary of the properties over a session *)

InLoop == pc \in {"read", "detect", "alert", "show"}

\* the steps with which the loop goes on from where it is
LoopStep == ReadFrame \/ Detect \/ HandleAlert \/ Show

\* some send_email thread made a step
NotifierStepped == Len(tasks') = Len(tasks) /\ tasks' # tasks

AllFinished == \A k \in 1..Len(tasks) : Finished(tasks[k])

sessionVars == <<pc, cap, releases, camera_index, person_detected, last_detection_time,
                 frames, results, person_found, quit_seen>>

----------------------------------------------------------------------------
(* C6 *)

\* C6: a failing send_email thread ends as failed and stays so (no retry, at
\* most one sendmail call per thread); no step of a thread changes the alert
\* state or the loop's position, and the session never ends by an exception
\* in the step of a thread; and with a failed thread around the loop can
\* take its next step as ever.
C6_NotifierFailureIsolated ==
    /\ [](((\E k \in 1..Len(tasks) : tasks[k].stage = "failed")
              /\ InLoop /\ (pc = "read" => frames < MaxFrames))
            => ENABLED LoopStep)
    /\ [][ /\ NotifierStepped => UNCHANGED sessionVars
           /\ \A k \in 1..Len(tasks) :
                /\ tasks[k].stage = "failed" => tasks'[k] = tasks[k]
                /\ tasks'[k].sends <= 1
                /\ tasks'[k].sends >= tasks[k].sends
           /\ (pc' = "crashed" /\ pc # "crashed") => tasks' = tasks ]_vars

\* a thread whose login was refused has failed, and the loop has gone on to
\* handle a frame with the flag still up
C6_Witness ==
    /\ \E k \in 1..Len(tasks) :
         tasks[k] = [stage |-> "failed", conn |-> TRUE, sends |-> 0]
    /\ pc = "show"
    /\ frames >= 2
    /\ person_detected

----------------------------------------------------------------------------
(* C7 *)

\* C7: once 'q' has been seen the loop is left: no frame is read and no
\* thread is started any more, the session only goes through its release
\* to its end; the threads already started are not touched by that and
\* each of them reaches "sent" or "failed".
C7_StopEndsLoopNotTasks ==
    /\ [][ quit_seen' =>
             /\ quit_seen => (frames' = frames /\ quit_seen')
             /\ pc' \in {"release", "returned", "crashed"}
             /\ Len(tasks') = Len(tasks)
             /\ pc' # pc => tasks' = tasks ]_vars
    /\ [][ quit_seen => quit_seen' ]_vars
    /\ quit_seen ~> AllFinished

\* the stop was seen while two threads were still running
C7_Witness ==
    /\ quit_seen
    /\ pc = "returned"
    /\ Len(tasks) = 2
    /\ \A k \in 1..Len(tasks) : ~Finished(tasks[k])

----------------------------------------------------------------------------
(* C8 *)

\* C8: a session that opened its camera has released it exactly once when
\* it has ended, however it ended, and never releases twice.
C8_CameraReleasedExactlyOnce ==
    /\ releases <= 1
    /\ (pc \in {"returned", "crashed"} /\ cap \notin {None, "unopened"})
         => (cap = "released" /\ releases = 1)

----------------------------------------------------------------------------
(* C9 *)

\* the indices whose probe is complete and succeeded
Probed == {n \in probe_ok : n < i}

\* the variables of the enumeration are in scope
EnumLive == pc \in {"probe_open", "probe_check", "popup", "open"}
              \/ (pc = "returned" /\ cap = None)

\* C9: the list holds exactly the indices below max_cameras whose probe open
\* succeeded, as str(i), strictly increasing; every index is probed whatever
\* the earlier probes gave, and the call returns with all of them probed;
\* max_cameras = 0 gives the empty list.
C9_EnumerationExact ==
    EnumLive =>
      /\ Len(available_cameras) = Cardinality(Probed)
      /\ \A k \in 1..Len(available_cameras) :
           /\ ParseInt(available_cameras[k]) \in Probed
           /\ ToStr(ParseInt(available_cameras[k])) = available_cameras[k]
           /\ k > 1 => ParseInt(available_cameras[k - 1]) < ParseInt(available_cameras[k])
      /\ probe_ok \subseteq 0..(max_cameras - 1)
      /\ i <= max_cameras
      /\ (pc \in {"popup", "open"} \/ (pc = "returned" /\ entry = "detect_available_cameras"))
           => (i = max_cameras /\ Probed = probe_ok)
      /\ max_cameras = 0 => available_cameras = <<>>

\* detect_available_cameras(4) has returned ["0", "2"]: the probes of 1 and 3 failed
C9_Witness ==
    /\ entry = "detect_available_cameras"
    /\ pc = "returned"
    /\ max_cameras = 4
    /\ available_cameras = <<"0", "2">>

----------------------------------------------------------------------------
(* C10 *)

\* C10: a thread is started exactly by the step that raises the flag, one
\* per such step, and starts unconnected; whatever the threads are doing,
\* the loop can take its next step.
C10_FireAndForget ==
    /\ []((InLoop /\ (pc = "read" => frames < MaxFrames)) => ENABLED LoopStep)
    /\ [][ \/ (~person_detected /\ person_detected' /\ pc = "alert"
                 /\ tasks' = Append(tasks, NewTask))
           \/ (~(~person_detected /\ person_detected' /\ pc = "alert")
                 /\ Len(tasks') = Len(tasks)) ]_vars

\* two threads in flight while the loop reads on, and the later one has
\* finished before the earlier one
C10_Witness ==
    /\ Len(tasks) = 2
    /\ ~Finished(tasks[1])
    /\ Finished(tasks[2])
    /\ pc = "detect"

----------------------------------------------------------------------------
(* C11 *)

\* C11: a frame is read, the loop is entered or a thread is started only in
\* a session whose camera opened; a session whose enumeration found nothing
\* offers no selection and opens nothing, and one whose open failed has
\* ended, both with no frame read and no thread started.
C11_NoSourceNoSession ==
    /\ (InLoop \/ pc \in {"init", "release"} \/ frames > 0 \/ tasks # <<>> \/ releases > 0)
         => cap \in {"open", "released"}
    /\ cap = "unopened" => pc \in {"returned", "crashed"}
    /\ (entry = "start_surveillance" /\ pc \in {"popup", "open"})
         => available_cameras # <<>>
    /\ (entry = "start_surveillance" /\ pc = "returned" /\ cap = None)
         => (frames = 0 /\ tasks = <<>> /\ releases = 0 /\ camera_index = NoCamera)

\* the selected camera 2 did not open: the session has returned
C11_Witness ==
    /\ pc = "returned"
    /\ cap = "unopened"
    /\ camera_index = 2
    /\ frames = 0
    /\ tasks = <<>>

----------------------------------------------------------------------------
(* C12 *)

\* C12: a send_email thread that has ended, as sent or as failed, has no
\* SMTP connection left open.
C12_ConnectionReleased ==
    \A k \in 1..Len(tasks) : Finished(tasks[k]) => ~tasks[k].conn

----------------------------------------------------------------------------
(* C13 *)

\* C13 as stated: for each configured minimum confidence, the presence
\* signal is true iff some box is a person of at least that confidence.
C13_SignalRespectsThreshold ==
    \A minConfidence \in Confidences :
      pc = "alert" =>
        (person_found <=>
           \E box \in results : box.label = "person" /\ box.conf >= minConfidence)

\* C13 amended: the presence signal is true iff some box is a person,
\* whatever its confidence; other labels never raise it.
C13_SignalIsAnyPerson ==
    pc = "alert" =>
      /\ person_found <=> (\E conf \in Confidences :
                             [label |-> "person", conf |-> conf] \in results)
      /\ (\A box \in results : box.label # "person") => ~person_found

\* a frame whose only person box has the low confidence, next to a
\* high-confidence dog: the signal is true
C13_Witness ==
    /\ pc = "alert"
    /\ results = {[label |-> "person", conf |-> 30], [label |-> "dog", conf |-> 90]}
    /\ person_found

----------------------------------------------------------------------------
(* C14 *)

\* C14: a true frame arriving with the flag up (ALERTED) stores its time,
\* keeps the flag up and dispatches nothing; so, once a true frame has been
\* seen, the stored timestamp is the time of the most recent true frame.
C14_StampFollowsTrueFrames ==
    \A c \in Cooldowns :
      /\ \A j \in Frames :
           (Signal(j) /\ runs[c].log[j].detected_before)
           => /\ runs[c].log[j].last_after = At(j)
              /\ runs[c].log[j].detected_after
              /\ j \notin Dispatches(c)
      /\ HasTrueBefore(Len(trace) + 1)
           => runs[c].last_detection_time = At(LastTrueBefore(Len(trace) + 1))

----------------------------------------------------------------------------
(* C15 *)

\* C15: a frame dispatches iff it is a true frame arriving with the flag
\* down (IDLE); that step raises the flag and stores the frame's time; no
\* other step dispatches. The flag starts down, so the first true frame of
\* a trace dispatches.
C15_DispatchOnlyOnRaise ==
    \A c \in Cooldowns :
      /\ Len(trace) = 0 => ~runs[c].person_detected
      /\ \A j \in Frames :
           /\ j \in Dispatches(c) <=> (Signal(j) /\ ~runs[c].log[j].detected_before)
           /\ j \in Dispatches(c)
                => /\ runs[c].log[j].detected_after
                   /\ runs[c].log[j].last_after = At(j)
           /\ (Signal(j) /\ ~HasTrueBefore(j)) => j \in Dispatches(c)

\* false, true, true, false: the second frame, the first true one, is the
\* only one that dispatched, whatever the cooldown
C15_Witness ==
    /\ Len(trace) = 4
    /\ ~Signal(1) /\ Signal(2) /\ Signal(3) /\ ~Signal(4)
    /\ At(2) # runs[0].log[2].last_before
    /\ \A c \in Cooldowns : Dispatches(c) = {2}

----------------------------------------------------------------------------
(* C16 *)

\* the time passed from frame p to frame j when a backward step of the
\* clock between two frames counts as no time passed
RECURSIVE ClampedElapsed(_, _)
ClampedElapsed(p, j) ==
    IF j <= p THEN 0
    ELSE ClampedElapsed(p, j - 1)
           + (IF At(j) > At(j - 1) THEN At(j) - At(j - 1) ELSE 0)

\* C16: with the flag up (ALERTED) and false frames only since the most
\* recent true frame, a false frame by which more than the cooldown has
\* passed, backward steps of the clock counting as no time, lowers the flag
\* (so the flag does not stay up for as long as the clock was set back); and
\* a false frame lowers the flag only when more than the cooldown has passed
\* since the most recent true frame.
C16_ClampedCooldown ==
    \A c \in Cooldowns : \A j \in Frames :
      (~Signal(j) /\ runs[c].log[j].detected_before)
      => /\ ClampedElapsed(LastTrueBefore(j), j) > c
              => ~runs[c].log[j].detected_after
         /\ ~runs[c].log[j].detected_after
              => At(j) - At(LastTrueBefore(j)) > c

----------------------------------------------------------------------------
(* C18 *)

\* C18: on a trace with non-decreasing timestamps any two dispatches of a
\* run are more than its cooldown apart.
C18_DispatchesCooldownApart ==
    NonDecreasing =>
      \A c \in Cooldowns : \A j \in Dispatches(c) : \A k \in Dispatches(c) :
        j < k => At(k) - At(j) > c

\* two dispatches under cooldown 1 on a non-decreasing trace
C18_Witness ==
    /\ NonDecreasing
    /\ Len(trace) <= MaxTraceLen
    /\ Cardinality(Dispatches(1)) = 2

----------------------------------------------------------------------------
(* C17 *)

\* C17: at most one probe handle is open at any time, and only that of the
\* index being probed; none is open when the next index is about to be
\* probed, when the function returns, or afterwards.
C17_NoProbeLeftOpen ==
    /\ Cardinality(open_probes) <= 1
    /\ open_probes \subseteq {i}
    /\ pc # "probe_check" => open_probes = {}
    /\ open_probes \subseteq probe_ok

\* all five indices were probed, three of them opened, and none is open
\* at the return
C17_Witness ==
    /\ pc = "probe_open"
    /\ i = MAX_CAMERAS
    /\ Cardinality(probe_ok) = 3
    /\ open_probes = {}

----------------------------------------------------------------------------
(* C19 *)

\* the enumerated indices, read back from the list
Enumerated == {ParseInt(available_cameras[k]) : k \in 1..Len(available_cameras)}

\* C19: the index the session opens is one of the enumerated indices (and
\* so one whose probe opened); the popup starts with the first, lowest
\* enumerated index selected, and confirming returns the selected one; with
\* an empty enumeration there is no popup, no index and no open.
C19_SelectionProtocol ==
    /\ [](pc \in {"popup", "open"} =>
            /\ available_cameras # <<>>
            /\ camera_selection \in Range(available_cameras))
    /\ [](pc = "open" =>
            /\ camera_index \in Enumerated
            /\ camera_index \in probe_ok
            /\ ToStr(camera_index) = camera_selection)
    /\ [](cap # None => camera_index # NoCamera)
    /\ [][ /\ (pc # "popup" /\ pc' = "popup")
              => /\ camera_selection' = available_cameras[1]
                 /\ \A n \in probe_ok : ParseInt(camera_selection') <= n
           /\ (pc = "popup" /\ pc' = "open" /\ camera_selection = available_cameras[1])
              => /\ camera_index' = ParseInt(available_cameras[1])
                 /\ \A n \in Enumerated : camera_index' <= n
           /\ (cap = None /\ cap' # None)
              => (pc = "open" /\ camera_index \in Enumerated /\ camera_index' = camera_index)
           /\ (pc = "probe_open" /\ pc' # pc /\ i >= max_cameras /\ available_cameras = <<>>)
              => (pc' \in {"returned", "crashed"} /\ cap' = None /\ camera_index' = NoCamera) ]_vars

\* cameras 1 and 3 were enumerated and the operator chose 3, not the default
C19_Witness ==
    /\ pc = "open"
    /\ available_cameras = <<"1", "3">>
    /\ camera_index = 3

====
